---- MODULE Spec2Model ----
(***************************************************************************)
(* Genetic-algorithm engine of src/src/lib.rs: struct Chromosome, struct   *)
(* Run and the generational loop Run::run.                                 *)
(*                                                                         *)
(* Representation.                                                         *)
(*  - A u64 is the set of its set bit positions, a subset of 0..63, so     *)
(*    that shifts, masks and the 64-bit wrap are exact.                    *)
(*  - An f64 fitness is an exact rational in units of 1/25 (0.52 = 13/25), *)
(*    so every fitness and total_fitness is an integer number of 1/25.     *)
(*    Rounding of f64 is not modelled.  A quotient x/y is kept as the pair *)
(*    (num, den) with the IEEE cases 0/0 = NaN and x/0 = +inf for x > 0.   *)
(*  - A probability and a random draw in [0,1) are counted in halves       *)
(*    (Pcross, Pmut) and in UDen-ths (the draw of select).                 *)
(*  - overflow_checks is the build profile: TRUE panics on integer         *)
(*    overflow (debug), FALSE wraps (release).                             *)
(***************************************************************************)
EXTENDS Integers, Sequences, FiniteSets, TLC

VARIABLES
    Pcross, Pmut, L, n, z,            \* Run's parameters
    population, total_fitness, data_sum,
    overflow_checks,                  \* build profile of the crate
    pc,                               \* position in Run::run
    iterations, gen, stats,           \* run's argument, loop counter, result
    probabilities, next_gen, rand_f,  \* locals of recomb / select
    old_population, paired_indices,   \* locals of cross / pairs
    pairs, pair, new_population, crossed

vars == <<Pcross, Pmut, L, n, z, population, total_fitness, data_sum,
          overflow_checks, pc, iterations, gen, stats,
          probabilities, next_gen, rand_f,
          old_population, paired_indices, pairs, pair, new_population,
          crossed>>

params == <<Pcross, Pmut, L, n, z, overflow_checks>>
recombLocals == <<probabilities, next_gen, rand_f>>
crossLocals == <<old_population, paired_indices, pairs, pair, new_population,
                 crossed>>

----------------------------------------------------------------------------
(* Bounds of the model *)

\* population sizes n
NValues == {0, 1, 2, 3, 4}
\* largest argument of run(), and the largest number n * iterations of
\* individuals a call of run() goes through
MaxIter == 2
MaxWork == 4
\* the draw of select() is one of 0/UDen .. (UDen-1)/UDen
UDen == 2

\* chromosome widths L, and for each the widths z of the exchanged segment;
\* Run::new takes any z, so the narrowest L also gets a z above it
LValues == {1, 3, 64}
ZValues(l) == {0, l} \cup (IF l >= 2 THEN {2} ELSE {l + 1})
\* probabilities 0, 1/2 and 1, in halves; the trial draws 0 and 1/2
ProbValues == {0, 1, 2}
TrialDraws == {0, 1}
\* values Chromosome::new draws in the model
SampleValues == {0, 5}

----------------------------------------------------------------------------
(* 64-bit unsigned integers as sets of bit positions *)

WordBits == 64
Word == 0 .. (WordBits - 1)

Max(S) == CHOOSE x \in S : \A y \in S : y <= x
Min(S) == CHOOSE x \in S : \A y \in S : x <= y

\* the u64 of a small natural number
FromInt(v) == {b \in 0 .. 30 : (v \div (2 ^ b)) % 2 = 1}

\* the natural number of a u64 below 2^30
RECURSIVE ToInt(_)
ToInt(d) == IF d = {} THEN 0
            ELSE LET b == Max(d) IN (2 ^ b) + ToInt(d \ {b})

\* d << s and d >> s for a shift amount s < 64
Shl(d, s) == {b + s : b \in {c \in d : c + s < WordBits}}
Shr(d, s) == {b - s : b \in {c \in d : c >= s}}

\* a >= b as unsigned integers
GeWord(a, b) == LET diff == (a \ b) \cup (b \ a)
                IN diff = {} \/ Max(diff) \in a

\* the carry into bit i of a + b: some lower bit generates it and every
\* bit between propagates it
Carry(a, b, i) ==
    \E j \in a \cap b : j < i /\ \A k \in (j + 1) .. (i - 1) : k \in a \cup b

\* a + b in 64 bits: the wrapped sum and whether it overflowed
AddWord(a, b) ==
    [sum |-> {i \in Word : (i \in a) # ((i \in b) # Carry(a, b, i))},
     overflow |-> Carry(a, b, WordBits)]

----------------------------------------------------------------------------
(* Chromosome *)

\* gen_range(0..1023)
RandBound == 1023
InitValues == {FromInt(v) : v \in {s \in SampleValues : s < RandBound}}

ChromosomeNew(N, random_number) ==
    [data |-> random_number, fitness |-> 0, N |-> N]

\* the constants of calculate_fitness; 0.52 = CNum / CDen
K == 20000
CNum == 13
CDen == 25

\* variant: the product is returned as it is, without `if fitness < 0.0`;
\* -1 stands for a product below zero whose operands are above the thresholds
calculate_fitnessUnfloored(data, sum) ==
    IF ~GeWord(sum, data) THEN 0
    ELSE IF data = {} THEN 0
    ELSE IF (\E b \in data : b >= 15) \/ (\E b \in sum : b >= 20) THEN -1
    ELSE LET v == ToInt(data)
             diff == ToInt(sum) - v
         IN (CDen * (K - v) - CNum * diff) * v

\* Chromosome::calculate_fitness, in units of 1/CDen.  The product is below
\* zero or zero, hence floored to 0, as soon as data >= K or 0.52 * diff
\* exceeds K; only below those thresholds are the operands turned into
\* integers.
calculate_fitness(data, sum) ==
    IF ~GeWord(sum, data) THEN 0                       \* checked_sub is None
    ELSE IF \E b \in data : b >= 15 THEN 0             \* data >= 2^15 > K
    ELSE LET v == ToInt(data) IN
         IF v >= K THEN 0
         ELSE IF \E b \in sum : b >= 20 THEN 0         \* diff >= 2^20 - 2^15
         ELSE LET diff == ToInt(sum) - v
                  m == CDen * (K - v) - CNum * diff
              IN IF m <= 0 THEN 0 ELSE m * v

----------------------------------------------------------------------------
(* Run *)

\* mutate() draws its bit position in 0..L-1; the model draws the lowest
\* and the highest position
MutDraws(l) == {b \in 0 .. (l - 1) : b = 0 \/ b = l - 1}

Init ==
    /\ Pcross \in ProbValues
    /\ Pmut \in ProbValues
    /\ L \in LValues
    /\ z \in ZValues(L)
    /\ n \in NValues
    /\ overflow_checks \in BOOLEAN
    /\ population \in [1 .. n -> {ChromosomeNew(n, v) : v \in InitValues}]
    /\ total_fitness = 0
    /\ data_sum = {}
    /\ pc = "new"
    /\ iterations = 0
    /\ gen = 0
    /\ stats = <<>>
    /\ probabilities = <<>>
    /\ next_gen = <<>>
    /\ rand_f = 0
    /\ old_population = <<>>
    /\ paired_indices = <<>>
    /\ pairs = <<>>
    /\ pair = <<>>
    /\ new_population = <<>>
    /\ crossed = FALSE

\* the sum of the data of pop[i..], added to acc with 64-bit additions
RECURSIVE SumData(_, _, _)
SumData(pop, i, acc) ==
    IF i > Len(pop) THEN acc
    ELSE LET a == AddWord(acc.sum, pop[i].data)
         IN SumData(pop, i + 1,
                    [sum |-> a.sum, overflow |-> acc.overflow \/ a.overflow])
DataSum(pop) == SumData(pop, 1, [sum |-> {}, overflow |-> FALSE])

\* variant: the loop runs while the count of finished generations is <= k
LoopNextInclusive(g, k) == IF g <= k THEN "calculate_data_sum" ELSE "done"

\* `for _ in 0..iterations`, after g generations of k: the body starts
\* again, or run() returns
LoopNext(g, k) == IF g < k THEN "calculate_data_sum" ELSE "done"

\* run(iterations): the entry of the loop
RunCall ==
    /\ pc = "new"
    /\ \E k \in 0 .. MaxIter :
          /\ n * k <= MaxWork
          /\ iterations' = k
          /\ pc' = LoopNext(0, k)
    /\ stats' = <<>>
    /\ gen' = 0
    /\ UNCHANGED <<params, population, total_fitness, data_sum,
                   recombLocals, crossLocals>>

CalculateDataSum ==
    /\ pc = "calculate_data_sum"
    /\ LET s == DataSum(population) IN
          IF s.overflow /\ overflow_checks
          THEN /\ pc' = "panic_overflow"
               /\ UNCHANGED data_sum
          ELSE /\ data_sum' = s.sum
               /\ pc' = "calculate_iteration_fitness"
    /\ UNCHANGED <<params, population, total_fitness, iterations, gen, stats,
                   recombLocals, crossLocals>>

\* the loop of calculate_iteration_fitness from individual i on: the
\* population with its fitness recomputed and the running total
RECURSIVE IterationFitness(_, _, _, _)
IterationFitness(pop, i, total, sum) ==
    IF i > Len(pop) THEN [population |-> pop, total_fitness |-> total]
    ELSE LET ind_fitness_old == pop[i].fitness
             fitness == calculate_fitness(pop[i].data, sum)
         IN IterationFitness([pop EXCEPT ![i].fitness = fitness], i + 1,
                             total + (fitness - ind_fitness_old), sum)

CalculateIterationFitness ==
    /\ pc = "calculate_iteration_fitness"
    /\ LET r == IterationFitness(population, 1, total_fitness, data_sum)
       IN /\ population' = r.population
          /\ total_fitness' = r.total_fitness
    /\ pc' = "iter_stats"
    /\ UNCHANGED <<params, data_sum, iterations, gen, stats,
                   recombLocals, crossLocals>>

\* iter_stats and the push of its result; the record keeps the aggregate,
\* the variance is a function of the same population
IterStats ==
    /\ pc = "iter_stats"
    /\ LET s == DataSum(population) IN
          IF s.overflow /\ overflow_checks
          THEN /\ pc' = "panic_overflow"
               /\ UNCHANGED stats
          ELSE /\ stats' = Append(stats, s.sum)
               /\ pc' = "recomb"
    /\ UNCHANGED <<params, population, total_fitness, data_sum, iterations, gen,
                   recombLocals, crossLocals>>

(* Selection *)

\* assign_probability: the quotient fitness / total_fitness
assign_probability(ind, total) == [num |-> ind.fitness, den |-> total]

IsNaN(p) == p.den = 0 /\ p.num = 0
IsInf(p) == p.den = 0 /\ p.num # 0

\* cumulative_sum += p, for shares p of one denominator: NaN is absorbing,
\* +inf absorbs every finite value
CumAdd(cum, p) ==
    IF cum.kind = "nan" \/ IsNaN(p) THEN [kind |-> "nan", num |-> 0, den |-> p.den]
    ELSE IF cum.kind = "inf" \/ IsInf(p) THEN [kind |-> "inf", num |-> 0, den |-> p.den]
    ELSE [kind |-> "fin", num |-> cum.num + p.num, den |-> p.den]

\* cumulative_sum >= rand_f, for the draw rand_f = u / UDen
CumGe(cum, u) ==
    CASE cum.kind = "nan" -> FALSE
      [] cum.kind = "inf" -> TRUE
      [] OTHER -> IF cum.den > 0 THEN cum.num * UDen >= u * cum.den
                  ELSE IF cum.den < 0 THEN cum.num * UDen <= u * cum.den
                  ELSE u = 0

CumZero == [kind |-> "fin", num |-> 0, den |-> 0]

\* the loop of select from index i (0-based) on: the index of the
\* population it returns, or -1 when it reads outside a vector
RECURSIVE SelectFrom(_, _, _, _, _)
SelectFrom(probs, pop, u, i, cum) ==
    IF i >= n
    THEN (IF n - 1 >= 0 /\ n - 1 < Len(pop) THEN n - 1 ELSE -1)
    ELSE IF i >= Len(probs) THEN -1
    ELSE LET cumulative_sum == CumAdd(cum, probs[i + 1])
         IN IF CumGe(cumulative_sum, u)
            THEN (IF i < Len(pop) THEN i ELSE -1)
            ELSE SelectFrom(probs, pop, u, i + 1, cumulative_sum)

\* variant: the fallback after the loop returns the first individual
selectFallbackFirst(probs, pop, u) ==
    LET i == SelectFrom(probs, pop, u, 0, CumZero)
        RECURSIVE Total(_)
        Total(k) == IF k = 0 THEN CumZero ELSE CumAdd(Total(k - 1), probs[k])
    IN IF i = n - 1 /\ ~CumGe(Total(n), u) THEN 0 ELSE i

select(probs, pop, u) == SelectFrom(probs, pop, u, 0, CumZero)

\* recomb, first statement: the vector of shares
Recomb ==
    /\ pc = "recomb"
    /\ probabilities' = [i \in 1 .. Len(population) |->
                            assign_probability(population[i], total_fitness)]
    /\ next_gen' = <<>>
    /\ pc' = "select"
    /\ UNCHANGED <<params, population, total_fitness, data_sum, iterations, gen,
                   stats, rand_f, crossLocals>>

\* recomb, one call of select
Select ==
    /\ pc = "select"
    /\ Len(next_gen) < n
    /\ \E u \in 0 .. (UDen - 1) :
          LET i == select(probabilities, population, u) IN
             /\ rand_f' = u
             /\ IF i < 0
                THEN /\ pc' = "panic_bounds"
                     /\ UNCHANGED next_gen
                ELSE /\ next_gen' = Append(next_gen, population[i + 1])
                     /\ UNCHANGED pc
    /\ UNCHANGED <<params, population, total_fitness, data_sum, iterations, gen,
                   stats, probabilities, crossLocals>>

\* recomb, last statement: the next generation replaces the population
RecombEnd ==
    /\ pc = "select"
    /\ Len(next_gen) = n
    /\ population' = next_gen
    /\ probabilities' = <<>>
    /\ next_gen' = <<>>
    /\ rand_f' = 0
    /\ pc' = "cross"
    /\ UNCHANGED <<params, total_fitness, data_sum, iterations, gen, stats,
                   crossLocals>>

(* Pairing and crossover *)

\* cross, first statements: the population is drained into old_population
\* and pairs() starts with no index paired
Cross ==
    /\ pc = "cross"
    /\ old_population' = population
    /\ population' = <<>>
    /\ paired_indices' = [i \in 1 .. n |-> FALSE]
    /\ pairs' = <<>>
    /\ pc' = "pairs"
    /\ UNCHANGED <<params, total_fitness, data_sum, iterations, gen, stats,
                   recombLocals, pair, new_population, crossed>>

\* the indices (0-based) pairs() has not paired yet; its loop variable i is
\* the least of them, every smaller index having been paired before
Unpaired == {j \in 0 .. (n - 1) : ~paired_indices[j + 1]}

\* variant: only an already paired partner is drawn again
RejectedOnlyPaired(partner_idx, i) == paired_indices[partner_idx + 1]

\* the condition of `while paired_indices[partner_idx] || partner_idx == i`
Rejected(partner_idx, i) == paired_indices[partner_idx + 1] \/ partner_idx = i

\* pairs, one draw of partner_idx for the current i: a draw the while
\* condition rejects is drawn again, any other is paired with i
PairsDraw ==
    /\ pc = "pairs"
    /\ Unpaired # {}
    /\ LET i == Min(Unpaired) IN
       \E partner_idx \in 0 .. (n - 1) :
          IF Rejected(partner_idx, i)
          THEN UNCHANGED <<paired_indices, pairs>>
          ELSE /\ paired_indices' = [paired_indices EXCEPT ![i + 1] = TRUE,
                                                          ![partner_idx + 1] = TRUE]
               /\ pairs' = Append(pairs, <<old_population[i + 1],
                                           old_population[partner_idx + 1]>>)
    /\ UNCHANGED <<params, population, total_fitness, data_sum, pc, iterations,
                   gen, stats, recombLocals, old_population, pair,
                   new_population, crossed>>

\* pairs returns once its loop has passed every index
PairsReturn ==
    /\ pc = "pairs"
    /\ Unpaired = {}
    /\ new_population' = <<>>
    /\ old_population' = <<>>
    /\ paired_indices' = <<>>
    /\ pc' = "cross_loop"
    /\ UNCHANGED <<params, population, total_fitness, data_sum, iterations, gen,
                   stats, recombLocals, pairs, pair, crossed>>

\* L - z in u8: the difference, or a panic of the overflow check
ShiftAmount ==
    IF z <= L THEN [panic |-> FALSE, amount |-> L - z]
    ELSE [panic |-> overflow_checks, amount |-> L - z + 256]

\* the low bits cross() keeps of data: (data << s) >> s
LowSegment(data, s) == Shr(Shl(data, s % WordBits), s % WordBits)

\* the bits the loop `for i in 0..z` clears: 1 << i wraps i to i % 64
ClearedBits == {i % WordBits : i \in 0 .. (z - 1)}

\* the body of `if thread_rng.gen::<f32>() < self.Pcross` on the data of a pair
Crossover(data1, data2) ==
    LET s == ShiftAmount
        temp1 == LowSegment(data1, s.amount)
        temp2 == LowSegment(data2, s.amount)
    IN [panic |-> \/ s.panic
                  \/ overflow_checks /\ s.amount >= WordBits
                  \/ overflow_checks /\ z > WordBits,
        data1 |-> (data1 \ ClearedBits) \cup temp2,
        data2 |-> (data2 \ ClearedBits) \cup temp1]

\* variant: the offspring are pushed with their fitness reset
OffspringFresh(clone1, clone2) ==
    <<[clone1 EXCEPT !.fitness = 0], [clone2 EXCEPT !.fitness = 0]>>

\* variant: only the first offspring is pushed
OffspringFirstOnly(clone1, clone2) == <<clone1>>

\* what one iteration pushes to new_population
Offspring(clone1, clone2) == <<clone1, clone2>>

\* cross, one iteration of `for pair in pairs.iter()`
CrossPair ==
    /\ pc = "cross_loop"
    /\ pairs # <<>>
    /\ pair' = Head(pairs)
    /\ pairs' = Tail(pairs)
    /\ LET clone1 == Head(pairs)[1]
           clone2 == Head(pairs)[2]
       IN \E r \in TrialDraws :
             IF r < Pcross
             THEN LET c == Crossover(clone1.data, clone2.data) IN
                     IF c.panic
                     THEN /\ pc' = "panic_overflow"
                          /\ UNCHANGED <<new_population, crossed>>
                     ELSE /\ new_population' = new_population \o
                                 Offspring([clone1 EXCEPT !.data = c.data1],
                                           [clone2 EXCEPT !.data = c.data2])
                          /\ crossed' = TRUE
                          /\ UNCHANGED pc
             ELSE /\ new_population' = new_population \o Offspring(clone1, clone2)
                  /\ crossed' = FALSE
                  /\ UNCHANGED pc
    /\ UNCHANGED <<params, population, total_fitness, data_sum, iterations, gen,
                   stats, recombLocals, old_population, paired_indices>>

\* cross, last statement: the offspring replace the population
CrossEnd ==
    /\ pc = "cross_loop"
    /\ pairs = <<>>
    /\ population' = new_population
    /\ new_population' = <<>>
    /\ pair' = <<>>
    /\ crossed' = FALSE
    /\ pc' = "mutate"
    /\ UNCHANGED <<params, total_fitness, data_sum, iterations, gen, stats,
                   recombLocals, old_population, paired_indices, pairs>>

----------------------------------------------------------------------------
(* Mutation *)

\* variant: the bit is set (|=) instead of flipped
FlipBitSets(data, bit) == data \cup {bit % WordBits}

\* ind.data ^= 1 << bit
FlipBit(data, bit) ==
    LET b == bit % WordBits IN IF b \in data THEN data \ {b} ELSE data \cup {b}

\* mutate: every individual has its own trial r[i] and, when the trial
\* succeeds, its own bit position b[i]; then the loop of run() goes on
Mutate ==
    /\ pc = "mutate"
    /\ \E r \in [1 .. Len(population) -> TrialDraws],
          b \in [1 .. Len(population) -> MutDraws(L)] :
          IF overflow_checks /\ \E i \in 1 .. Len(population) :
                                    r[i] < Pmut /\ b[i] >= WordBits
          THEN /\ pc' = "panic_overflow"
               /\ UNCHANGED <<population, gen>>
          ELSE /\ population' = [i \in 1 .. Len(population) |->
                                   IF r[i] < Pmut
                                   THEN [population[i] EXCEPT
                                           !.data = FlipBit(population[i].data, b[i])]
                                   ELSE population[i]]
               /\ gen' = gen + 1
               /\ pc' = LoopNext(gen + 1, iterations)
    /\ UNCHANGED <<params, total_fitness, data_sum, iterations, stats,
                   recombLocals, crossLocals>>

----------------------------------------------------------------------------

Next ==
    \/ RunCall
    \/ CalculateDataSum
    \/ CalculateIterationFitness
    \/ IterStats
    \/ Recomb
    \/ Select
    \/ RecombEnd
    \/ Cross
    \/ PairsDraw
    \/ PairsReturn
    \/ CrossPair
    \/ CrossEnd
    \/ Mutate

Spec == Init /\ [][Next]_vars

----------------------------------------------------------------------------
(* Properties *)

\* the positions 0..k-1
LowBits(k) == 0 .. (k - 1)

\* data < 2^L
InWidth(data) == data \subseteq LowBits(L)

\* a pair has just gone through the loop body of cross()
PairDone == pc = "cross_loop" /\ pair # <<>>
Parent1 == pair[1]
Parent2 == pair[2]
Offspring1 == new_population[Len(new_population) - 1]
Offspring2 == new_population[Len(new_population)]

\* C1: on every pair on which crossover fires, with 0 <= z <= L <= 64 and
\* both parents below 2^L, offspring1 is parent1 with its low z bits replaced
\* by the low z bits of parent2, offspring2 is parent2 with its low z bits
\* replaced by those of parent1, and the bits z..L-1 of each offspring are
\* those of its own parent.
C1_CrossoverExchangesLowSegment ==
    (PairDone /\ crossed /\ z <= L /\ L <= WordBits
       /\ InWidth(Parent1.data) /\ InWidth(Parent2.data))
    => /\ Offspring1.data = (Parent1.data \ LowBits(z)) \cup (Parent2.data \cap LowBits(z))
       /\ Offspring2.data = (Parent2.data \ LowBits(z)) \cup (Parent1.data \cap LowBits(z))
       /\ Offspring1.data \ LowBits(z) = Parent1.data \ LowBits(z)
       /\ Offspring2.data \ LowBits(z) = Parent2.data \ LowBits(z)

\* the fitness of a population summed afresh
RECURSIVE FreshSum(_)
FreshSum(pop) == IF pop = <<>> THEN 0 ELSE Head(pop).fitness + FreshSum(Tail(pop))

\* C2: in every generation, right after calculate_iteration_fitness, the
\* running total_fitness equals the fresh sum of the fitness of the
\* chromosomes of the population.
C2_RunningTotalIsFreshSum ==
    pc = "iter_stats" => total_fitness = FreshSum(population)

\* C3: for odd n the pairing phase completes: the rejection loop of pairs()
\* that looks for a partner of an unpaired index always has a draw it
\* accepts, unless that index is the one left unpaired, and then pairs()
\* has returned.
C3_OddPairingCompletes ==
    (n % 2 = 1 /\ pc = "pairs" /\ Unpaired # {})
    => \E partner_idx \in 0 .. (n - 1) :
          ~paired_indices[partner_idx + 1] /\ partner_idx # Min(Unpaired)

\* every chromosome the engine holds
Held == {population[i] : i \in DOMAIN population}
        \cup {next_gen[i] : i \in DOMAIN next_gen}
        \cup {old_population[i] : i \in DOMAIN old_population}
        \cup {new_population[i] : i \in DOMAIN new_population}
        \cup UNION {{pairs[i][1], pairs[i][2]} : i \in DOMAIN pairs}

\* C4: with 1 <= L <= 64 and 0 <= z <= L, every chromosome of a freshly
\* constructed engine is below 2^L, and so is every chromosome in every
\* state reached through selection, crossover and mutation.
C4_ValuesBelowWidth ==
    (1 <= L /\ L <= WordBits /\ z <= L) => \A c \in Held : InWidth(c.data)

\* C5: the population holds exactly n chromosomes after construction, after
\* each completed recomb, cross and mutate, and when run returns it.
C5_PopulationSizeIsN ==
    pc \in {"new", "cross", "mutate", "calculate_data_sum", "done"}
    => Len(population) = n

\* C5 witness: run(k), k >= 1, has returned a population made of two pairs
C5_Witness == pc = "done" /\ gen >= 1 /\ n = 4 /\ Len(population) = 4

\* the cumulative share of index i (0-based): the shares 0..i summed in
\* population order
RECURSIVE CumulativeShare(_)
CumulativeShare(i) ==
    IF i < 0 THEN CumZero ELSE CumAdd(CumulativeShare(i - 1), probabilities[i + 1])

\* the indices whose cumulative share is >= the draw of the last select
Reaching == {i \in 0 .. (n - 1) : CumGe(CumulativeShare(i), rand_f)}

\* a call of select has just returned into next_gen
SelectDone == pc = "select" /\ next_gen # <<>>

\* C6: for n >= 1, select returns a clone of population[i] for the smallest
\* index i whose cumulative share is >= the draw, and of population[n-1]
\* when there is none; the result is a member of the population and no
\* index outside 0..n-1 is read.
C6_SelectFirstReachingOrLast ==
    /\ pc # "panic_bounds"
    /\ (SelectDone /\ n >= 1)
       => LET i == IF Reaching # {} THEN Min(Reaching) ELSE n - 1
          IN /\ i \in 0 .. (Len(population) - 1)
             /\ next_gen[Len(next_gen)] = population[i + 1]

\* C6 witnesses: a call of select that returned through the fallback, with
\* no cumulative share reaching the draw, and one that returned from inside
\* the loop at an index that is neither the first nor the last
C6_Witness ==
    /\ SelectDone /\ n >= 2 /\ Reaching = {}
    /\ population[n] # population[1]

C6_WitnessLoop ==
    /\ SelectDone /\ n >= 3 /\ Reaching # {}
    /\ Min(Reaching) \in 1 .. (n - 2)

\* C7: whenever selection runs with total_fitness = 0, no share is the
\* result of a division by zero and none that is NaN or infinite is
\* compared with the draw in select.
C7_ZeroTotalHasDefinedShares ==
    (pc = "select" /\ total_fitness = 0)
    => \A i \in DOMAIN probabilities :
          ~IsNaN(probabilities[i]) /\ ~IsInf(probabilities[i])

\* the positions in which two values differ
DiffBits(a, b) == (a \ b) \cup (b \ a)

\* C8: with p_mut = 1.0 and 1 <= L <= 64, a mutate phase changes every
\* individual in exactly one bit position, which is in 0..L-1, and leaves
\* its other bits as they were.
C8_MutateFlipsOneBit ==
    [][(pc = "mutate" /\ pc' \in {"calculate_data_sum", "done"}
          /\ Pmut = 2 /\ 1 <= L /\ L <= WordBits)
       => /\ Len(population') = Len(population)
          /\ \A i \in DOMAIN population :
                /\ Cardinality(DiffBits(population[i].data, population'[i].data)) = 1
                /\ DiffBits(population[i].data, population'[i].data) \subseteq LowBits(L)]_vars

\* C8 witness: a mutate phase with p_mut = 1.0 is over, on a population
\* one of whose individuals has a bit cleared and another a bit set
C8_Witness ==
    /\ Pmut = 2 /\ gen >= 1 /\ pc \in {"calculate_data_sum", "done"}
    /\ \E i, j \in DOMAIN population :
          0 \in population[i].data /\ 0 \notin population[j].data

\* C9: with p_cross = 1.0 and z = L, the two offspring of every pair are
\* the two parents' values swapped.
C9_FullWidthSwaps ==
    (PairDone /\ Pcross = 2 /\ z = L /\ 1 <= L /\ L <= WordBits)
    => /\ Offspring1.data = Parent2.data
       /\ Offspring2.data = Parent1.data

\* C10: with p_cross = 1.0 and z = 0, each offspring of every pair has the
\* value of its own parent.
C10_ZeroWidthIsNoOp ==
    (PairDone /\ Pcross = 2 /\ z = 0 /\ 1 <= L /\ L <= WordBits)
    => /\ Offspring1.data = Parent1.data
       /\ Offspring2.data = Parent2.data

\* C11: an engine with misconfigured parameters (z > L, or n = 0) is never
\* produced: Run::new fails instead, so no state of an engine, before or
\* during run(), has such parameters.
C11_MisconfiguredIsRejected == ~(z > L \/ n = 0)

\* the sum of the values of pop is below 2^64, and equals the word w
IsExactSum(w, pop) == ~DataSum(pop).overflow /\ w = DataSum(pop).sum

\* C12: run(k) returns exactly k records, one pushed per generation; the
\* aggregate of the record of a generation is the sum of the values of the
\* population the generation started with, which iter_stats still sees since
\* the fitness evaluation changes no value, and is the data_sum the fitness
\* of that generation was computed from.
C12_RecordPerGeneration ==
    /\ pc = "done" => Len(stats) = iterations
    /\ pc \in {"calculate_data_sum", "calculate_iteration_fitness", "iter_stats"}
          => Len(stats) = gen
    /\ pc \in {"calculate_iteration_fitness", "iter_stats"}
          => IsExactSum(data_sum, population)
    /\ pc = "recomb"
          => /\ Len(stats) = gen + 1
             /\ stats[gen + 1] = data_sum
             /\ IsExactSum(stats[gen + 1], population)

\* C13: run(0) executes no generation: the population it returns is the one
\* the engine had, value and fitness in order, the records are empty, and
\* total_fitness and data_sum are the ones from before the call.
C13_RunZeroChangesNothing ==
    [][(pc = "new" /\ iterations' = 0)
          => /\ pc' = "done"
             /\ population' = population
             /\ stats' = <<>>
             /\ total_fitness' = total_fitness
             /\ data_sum' = data_sum]_vars

C13_Witness ==
    /\ pc = "done"
    /\ iterations = 0
    /\ n >= 2
    /\ population[1].data # population[2].data

\* value and aggregate are below 2^12, where the product is computed on integers
SmallOperands(value, aggregate) == \A b \in value \cup aggregate : b < 12

\* max(0, ((20000 - value) - 0.52 * (aggregate - value)) * value) in units of
\* 1/CDen, for aggregate >= value: above the small operands a value > 0
\* has value >= 2^12 or aggregate - value >= 2^12 - value, and the maximum is
\* 0 exactly when the first factor is not above zero
ClaimedFitness(value, aggregate) ==
    IF SmallOperands(value, aggregate)
    THEN Max({0, (CDen * (K - ToInt(value))
                    - CNum * (ToInt(aggregate) - ToInt(value))) * ToInt(value)})
    ELSE IF value = {} \/ (\E b \in value : b >= 15) \/ (\E b \in aggregate : b >= 20)
    THEN 0
    ELSE -1

\* C14: no fitness is negative: right after the fitness evaluation the
\* fitness of every chromosome is max(0, ((20000 - value) - 0.52 * (aggregate
\* - value)) * value) when the aggregate data_sum is >= its value and 0 when
\* the aggregate is below its value, and the fitness cached in any
\* chromosome of any state is >= 0.
C14_FitnessNeverNegative ==
    /\ \A c \in Held : c.fitness >= 0
    /\ pc = "iter_stats" =>
          \A i \in DOMAIN population :
             LET c == population[i] IN
                IF GeWord(data_sum, c.data)
                THEN c.fitness = ClaimedFitness(c.data, data_sum)
                ELSE c.fitness = 0

\* an evaluation with the aggregate below a value: the sum has wrapped
C14_Witness ==
    /\ pc = "iter_stats"
    /\ \E i \in DOMAIN population : ~GeWord(data_sum, population[i].data)

\* run() has stopped in a panic instead of reaching its return
Panicked == pc \in {"panic_overflow", "panic_bounds"}

\* C15: for even n >= 2, whenever pairs() looks for a partner of the unpaired
\* index i some other index is unpaired, so the rejection loop has a draw it
\* accepts, and run(iterations) comes to its return, having executed exactly
\* `iterations` generations, rather than stopping before it.
C15_EvenRunReturns ==
    (n % 2 = 0 /\ n >= 2)
    => /\ (pc = "pairs" /\ Unpaired # {}) => Unpaired \ {Min(Unpaired)} # {}
       /\ ~Panicked
       /\ pc = "done" => gen = iterations

\* C17: with 1 <= L <= 64 and 0 <= z <= L no shift of cross() or mutate()
\* has an amount of 64 or more and L - z does not underflow: cross() raises
\* no failure on a pair, the amount L - z of the shifts it has executed on a
\* pair is below 64, and so is every position i < z of `1 << i` and every
\* position mutate() can draw.
C17_ShiftsBelowWidth ==
    (1 <= L /\ L <= WordBits /\ z <= L)
    => /\ ~(pc = "panic_overflow" /\ pair # <<>>)
       /\ (PairDone /\ crossed)
             => ~ShiftAmount.panic /\ ShiftAmount.amount < WordBits
       /\ \A i \in (0 .. (z - 1)) \cup MutDraws(L) : i < WordBits

\* C18: for L <= 64, in every generation the values of the population add up
\* to less than 2^64 where calculate_data_sum() and iter_stats() add them,
\* and the data_sum in use is their exact sum.
C18_SumIsExact ==
    L <= WordBits
    => /\ pc \in {"calculate_data_sum", "iter_stats"}
             => ~DataSum(population).overflow
       /\ pc = "calculate_iteration_fitness"
             => /\ ~DataSum(population).overflow
                /\ data_sum = DataSum(population).sum
       /\ ~(pc = "panic_overflow" /\ pair = <<>>)

\* the number of occurrences of x in the sequence q
RECURSIVE Occurrences(_, _)
Occurrences(x, q) ==
    IF q = <<>> THEN 0
    ELSE (IF Head(q) = x THEN 1 ELSE 0) + Occurrences(x, Tail(q))

RECURSIVE Flatten(_)
Flatten(ps) == IF ps = <<>> THEN <<>> ELSE Head(ps) \o Flatten(Tail(ps))

\* the individuals of old_population pairs() has not put in a pair yet
RECURSIVE NotYetPaired(_)
NotYetPaired(i) ==
    IF i > Len(old_population) THEN <<>>
    ELSE (IF paired_indices[i] THEN <<>> ELSE <<old_population[i]>>)
         \o NotYetPaired(i + 1)

\* the chromosomes cross() is working on, in some order: the population it
\* starts from or ends with, the individuals not paired yet, the members of
\* the pairs still to be recombined, and the offspring
InCross == population \o NotYetPaired(1) \o Flatten(pairs) \o new_population

\* how often each chromosome occurs among those cross() is working on
InCrossBag == [c \in Held |-> Occurrences(c, InCross)]

\* C16: for even n >= 2, every pair pairs() pushes is made of two different
\* indices neither of which was paired before, and pairs() returns n/2 pairs,
\* so each index 0..n-1 is in exactly one pair and none is paired with itself;
\* with p_cross = 0 no step of cross() changes the multiset of chromosomes,
\* so the population after cross() is a permutation of the one before.
C16_PairsPartitionIndices ==
    [][(n % 2 = 0 /\ n >= 2 /\ pc \in {"cross", "pairs", "cross_loop"})
         => /\ (pc = "pairs" /\ pairs' # pairs)
                 => \E i, j \in Unpaired :
                       /\ i # j
                       /\ paired_indices' = [paired_indices EXCEPT ![i + 1] = TRUE,
                                                                   ![j + 1] = TRUE]
                       /\ pairs' = Append(pairs, <<old_population[i + 1],
                                                   old_population[j + 1]>>)
            /\ (pc = "pairs" /\ pc' = "cross_loop")
                 => Unpaired = {} /\ 2 * Len(pairs) = n
            /\ Pcross = 0 => InCrossBag' = InCrossBag]_vars

\* cross() has returned with no crossover on two pairs of a population of
\* more than one chromosome
C16_Witness ==
    /\ pc = "mutate"
    /\ Pcross = 0
    /\ n = 4
    /\ \E i, j \in DOMAIN population : population[i] # population[j]

\* the fitness fields of the chromosomes of q, in order
FitnessOf(q) == [i \in DOMAIN q |-> q[i].fitness]

\* how often each fitness occurs among the chromosomes cross() is working on
InCrossFitnessBag ==
    [f \in {c.fitness : c \in Held} |-> Occurrences(f, FitnessOf(InCross))]

\* C19: every step of cross() and of mutate() that does not panic leaves
\* total_fitness, data_sum and the parameters as they are and keeps the
\* fitness field of every chromosome: the chromosomes cross() moves keep
\* theirs, whatever their order, each offspring has the fitness of the parent it is the clone of,
\* and mutate() keeps the fitness of each individual in place.  A changed
\* chromosome thus has the fitness of its value before the change, also in
\* the population run() returns.
C19_FitnessFieldsKept ==
    [][(pc \in {"cross", "pairs", "cross_loop", "mutate"} /\ ~Panicked')
         => /\ total_fitness' = total_fitness
            /\ data_sum' = data_sum
            /\ <<Pcross, Pmut, L, n, z>>' = <<Pcross, Pmut, L, n, z>>
            /\ pc # "mutate" => InCrossFitnessBag' = InCrossFitnessBag
            /\ (pc = "cross_loop" /\ pairs # <<>>)
                 => /\ Len(new_population') = Len(new_population) + 2
                    /\ Offspring1'.fitness = Head(pairs)[1].fitness
                    /\ Offspring2'.fitness = Head(pairs)[2].fitness
            /\ pc = "mutate" => FitnessOf(population)' = FitnessOf(population)]_vars

\* run() has returned a chromosome whose fitness is not the one of its value
C19_Witness ==
    /\ pc = "done"
    /\ gen >= 1
    /\ \E i \in DOMAIN population :
          population[i].fitness # calculate_fitness(population[i].data, data_sum)


====
